---- MODULE Spec2Model ----
(***************************************************************************)
(* Model of the cross-chain event relayer of src/script.py: the poll loop  *)
(* of CrossChainRelayer.run, one iteration of process_blocks split at its  *)
(* calls (height query, scan_for_events, relay_event per record, state     *)
(* assignment, save_state), the JSON state file of StateDB, and a process  *)
(* restart that rebuilds the relayer from the file.                        *)
(***************************************************************************)
EXTENDS Integers, Sequences, FiniteSets, TLC

VARIABLES
    pc,             \* position of the single thread inside run / process_blocks
    state,          \* self.state["last_scanned_block"] (in memory)
    file,           \* content of state.json
    ledger,         \* the raw logs of the source chain
    latest_block,   \* process_blocks local
    to_block,       \* process_blocks local
    last_scanned,   \* process_blocks local
    from_block,     \* process_blocks local
    events,         \* process_blocks local: result of scan_for_events
    idx,            \* position of the for loop over events
    scanRange,      \* <<from, to>> of the log query made by this iteration, or <<>>
    scanError,      \* exception swallowed by scan_for_events in this iteration
    posted,         \* transaction ids posted to the destination in this iteration
    outcomes,       \* per record of this iteration: "skipped", "ok" or "failed"
    outcome,        \* how the last iteration of this process ended
    submitted,      \* transaction ids ever posted to the destination
    coldTo,         \* to_block of the last cold-start iteration, or None
    prevScan,       \* the scanning iteration before curScan (same history)
    curScan,        \* the last iteration that went through scan, relay and save
    aggregator,     \* a PriceAggregator and the get_price call it is serving
    connector       \* a BlockchainConnector and its last get_web3_instance call

relayerVars == <<pc, state, file, ledger, latest_block, to_block, last_scanned,
                 from_block, events, idx, scanRange, scanError, posted, outcomes,
                 outcome, submitted, coldTo, prevScan, curScan>>

vars == <<pc, state, file, ledger, latest_block, to_block, last_scanned,
          from_block, events, idx, scanRange, scanError, posted, outcomes,
          outcome, submitted, coldTo, prevScan, curScan, aggregator, connector>>

\* Python's None as the value of an optional block number or exception: a
\* number no block number of the model can take.
None == -1000

\* ConfigManager.BLOCK_CONFIRMATIONS, default "6"
BLOCK_CONFIRMATIONS == 6

\* Chain heights the node may report to w3.eth.block_number: two heights of
\* a young chain (one below the confirmation depth), and 96 together with
\* NumHeights heights from 100 upwards, three blocks apart.
NumHeights == 2

Heights == {3, 8, 96} \cup {100 + 3 * k : k \in 0..(NumHeights - 1)}

Max(a, b) == IF a >= b THEN a ELSE b

\* Raw TokensLocked logs: wellformed = FALSE is a log lacking a field that
\* _format_event reads.
RawLog(id, b, i, amt, wf) ==
    [id |-> id, blockNumber |-> b, logIndex |-> i, amount |-> amt, wellformed |-> wf]

GoodLedger ==
    { RawLog("e1", 1, 0, 5, TRUE),
      RawLog("e2", 90, 0, 7, TRUE),
      RawLog("e3", 94, 0, 0, TRUE),
      RawLog("e4", 94, 1, 3, TRUE),
      RawLog("e5", 97, 0, 2, TRUE) }

BadLedger ==
    { RawLog("e1", 1, 0, 5, TRUE),
      RawLog("e2", 90, 0, 7, TRUE),
      RawLog("e3", 94, 0, 0, TRUE),
      RawLog("e4", 94, 1, 3, TRUE),
      RawLog("e5", 97, 0, 2, FALSE) }

Ledgers == {GoodLedger, BadLedger}

\* ---- StateDB -----------------------------------------------------------

Missing == [kind |-> "missing"]

Corrupt == [kind |-> "corrupt"]

Valid(v) == [kind |-> "valid", last_scanned_block |-> v]

\* a load_state whose default checkpoint is block 0
load_stateZeroDefault(f) ==
    IF f.kind = "valid" THEN f.last_scanned_block ELSE 0

\* StateDB.load_state
load_state(f) ==
    IF f.kind = "valid" THEN f.last_scanned_block ELSE None

\* ---- EventScanner ------------------------------------------------------

\* the logs of the ledger in [from, to], in ledger emission order
RECURSIVE SortLogs(_)
SortLogs(S) ==
    IF S = {} THEN <<>>
    ELSE LET first == CHOOSE l \in S : \A m \in S :
                          \/ l.blockNumber < m.blockNumber
                          \/ /\ l.blockNumber = m.blockNumber
                             /\ l.logIndex <= m.logIndex
         IN <<first>> \o SortLogs(S \ {first})

get_all_entries(L, from, to) ==
    SortLogs({l \in L : from <= l.blockNumber /\ l.blockNumber <= to})

\* EventScanner._format_event (defined for well-formed logs)
format_event(log) ==
    [transactionHash |-> log.id, blockNumber |-> log.blockNumber,
     amount |-> log.amount, transactionId |-> log.id]

FormatAll(raw) == [i \in 1..Len(raw) |-> format_event(raw[i])]

\* EventScanner.scan_for_events after the guard of lines 156-158, for the
\* entries raw that get_all_entries returns: res is what the node does with
\* the query ("ok", "BlockNotFound", or any other exception, e.g. a lost
\* connection). Returns the records, in the order of raw, and the exception
\* that was swallowed, if any.
scan_entries(raw, res) ==
    IF res = "BlockNotFound"
    THEN [events |-> <<>>, error |-> "BlockNotFound", queried |-> TRUE]
    ELSE IF res = "ConnectionLost"
    THEN [events |-> <<>>, error |-> "ConnectionLost", queried |-> TRUE]
    ELSE IF \E i \in 1..Len(raw) : ~raw[i].wellformed
    THEN [events |-> <<>>, error |-> "KeyError", queried |-> TRUE]
    ELSE [events |-> FormatAll(raw), error |-> "none", queried |-> TRUE]

\* EventScanner.scan_for_events against a node that returns the logs in
\* ledger emission order
scan_for_events(L, from, to, res) ==
    IF from > to THEN [events |-> <<>>, error |-> "none", queried |-> FALSE]
    ELSE scan_entries(get_all_entries(L, from, to), res)

\* ---- CrossChainRelayer.process_blocks: range computation ----------------

ToBlock(h) == h - BLOCK_CONFIRMATIONS

\* a resume that starts right after the checkpoint, without the rewind
FromBlockNoRewind(c, to) ==
    IF c = None THEN to ELSE c + 1

\* a resume that rewinds one block too many
FromBlockDeepRewind(c, to) ==
    IF c = None THEN to ELSE Max(0, c - BLOCK_CONFIRMATIONS - 1)

FromBlock(c, to) ==
    IF c = None THEN to ELSE Max(0, c - BLOCK_CONFIRMATIONS)

\* the range check without its return: the iteration goes on to the scan
RangeCheckNoReturn(from, to) == "scan"

\* "if from_block > to_block: return": where the iteration goes next
RangeCheck(from, to) ==
    IF from > to THEN "sleep" ELSE "scan"

NoScan == [from |-> None, to |-> None]

\* ---- PriceAggregator (src/price_aggregator.py) ---------------------------

\* what a provider does when called with the token symbol: it raises, or
\* returns None, a number, or a value that is not a number
Raises == [kind |-> "raise"]

ReturnsNone == [kind |-> "None"]

ReturnsStr == [kind |-> "str"]

Returns(n) == [kind |-> "number", value |-> n]

ProviderAnswers == {Raises, ReturnsNone, ReturnsStr, Returns(-1), Returns(0), Returns(5), Returns(7)}

Tokens == {"ETH", "SOL"}

\* the longest provider list of the model
MaxProviders == 3

\* PriceAggregator.__init__ rejects an empty list
ProviderLists == UNION {[1..n -> ProviderAnswers] : n \in 1..MaxProviders}

\* float(price)
ToFloat(n) == [kind |-> "float", value |-> n]

PriceNotFoundError(token) == [kind |-> "PriceNotFoundError", token_symbol |-> token]

Pending == [kind |-> "pending"]

\* a test that lets a price of 0 through
QualifiesNonNegative(a) == a.kind = "number" /\ a.value >= 0

\* "price is not None and isinstance(price, (int, float)) and price > 0",
\* reached only when the provider did not raise
Qualifies(a) == a.kind = "number" /\ a.value > 0

NoAggregator ==
    [providers |-> <<>>, token |-> "ETH", i |-> 1, calls |-> <<>>, result |-> Pending]

\* one turn of "for i, provider in enumerate(self.providers)"
GetPriceStep ==
    /\ aggregator.result = Pending
    /\ aggregator.i <= Len(aggregator.providers)
    /\ LET a == aggregator.providers[aggregator.i]
       IN aggregator' =
            [aggregator EXCEPT
               !.calls = Append(@, aggregator.i),
               !.i = IF Qualifies(a) THEN @ ELSE @ + 1,
               !.result = IF Qualifies(a) THEN ToFloat(a.value) ELSE @]
    /\ UNCHANGED <<relayerVars, connector>>

\* raise PriceNotFoundError(token_symbol) after the loop
GetPriceNotFound ==
    /\ aggregator.result = Pending
    /\ aggregator.providers # <<>>
    /\ aggregator.i > Len(aggregator.providers)
    /\ aggregator' = [aggregator EXCEPT !.result = PriceNotFoundError(aggregator.token)]
    /\ UNCHANGED <<relayerVars, connector>>

\* ---- BlockchainConnector ---------------------------------------------------

\* BlockchainConnector.connect: self.web3 is set when the node answers the
\* attempt (up) and is None otherwise; the exception is caught inside
connect(up) == up

\* BlockchainConnector.is_connected
is_connected(web3, up) == web3 /\ up

\* a get_web3_instance that tries the reconnect a second time
get_web3_instanceRetry(web3, up1, up2) ==
    IF is_connected(web3, up1)
    THEN [web3 |-> web3, connects |-> 0, raised |-> FALSE]
    ELSE [web3 |-> connect(up2), connects |-> IF connect(up2) THEN 1 ELSE 2,
          raised |-> ~connect(up2)]

\* BlockchainConnector.get_web3_instance: web3 says whether self.web3 holds
\* an instance, up1 whether the node answers is_connected, up2 whether it
\* answers the reconnect. Returns the new self.web3, the number of connect()
\* calls made and whether ConnectionError was raised.
get_web3_instance(web3, up1, up2) ==
    IF is_connected(web3, up1)
    THEN [web3 |-> web3, connects |-> 0, raised |-> FALSE]
    ELSE [web3 |-> connect(up2), connects |-> 1, raised |-> ~connect(up2)]

\* BlockchainConnector.__init__ calls connect() once
NewConnector(up) ==
    [web3 |-> connect(up), called |-> FALSE, before |-> FALSE, up1 |-> FALSE,
     up2 |-> FALSE, connects |-> 0, raised |-> FALSE]

\* one call of get_web3_instance, as process_blocks makes it
GetWeb3Instance ==
    /\ \E up1, up2 \in BOOLEAN :
          LET r == get_web3_instance(connector.web3, up1, up2)
          IN connector' = [web3 |-> r.web3, called |-> TRUE,
                           before |-> connector.web3, up1 |-> up1, up2 |-> up2,
                           connects |-> r.connects, raised |-> r.raised]
    /\ UNCHANGED <<relayerVars, aggregator>>

\* ---- CrossChainRelayer ------------------------------------------------------

Init ==
    /\ aggregator = NoAggregator
    /\ connector = NewConnector(TRUE)
    /\ pc = "idle"
    /\ file = Missing
    /\ state = load_state(Missing)
    /\ ledger \in Ledgers
    /\ latest_block = None
    /\ to_block = None
    /\ last_scanned = None
    /\ from_block = None
    /\ events = <<>>
    /\ idx = 1
    /\ scanRange = <<>>
    /\ scanError = "none"
    /\ posted = <<>>
    /\ outcomes = <<>>
    /\ outcome = "none"
    /\ submitted = {}
    /\ coldTo = None
    /\ prevScan = NoScan
    /\ curScan = NoScan

\* a run() that handles ConnectionError only: any other exception leaves
\* the loop and ends the process
run_catchConnectionOnly(exc) ==
    IF exc = "ConnectionError" THEN "sleep" ELSE "exit"

\* run(): where the loop goes when process_blocks raises exc. Both except
\* clauses only log, and the sleep after them is reached in either case.
run_catch(exc) == "sleep"

\* get_web3_instance raises ConnectionError (or the height query fails):
\* run() catches it, logs and sleeps.
ConnectorFailure ==
    /\ pc = "idle"
    /\ \E exc \in {"ConnectionError", "Exception"} : pc' = run_catch(exc)
    /\ outcome' = "conn_error"
    /\ latest_block' = None
    /\ to_block' = None
    /\ last_scanned' = None
    /\ from_block' = None
    /\ events' = <<>>
    /\ idx' = 1
    /\ scanRange' = <<>>
    /\ scanError' = "none"
    /\ posted' = <<>>
    /\ outcomes' = <<>>
    /\ UNCHANGED <<state, file, ledger, submitted, coldTo, prevScan, curScan, aggregator, connector>>

\* process_blocks up to the range check
ComputeRange(h) ==
    /\ pc = "idle"
    /\ latest_block' = h
    /\ to_block' = ToBlock(h)
    /\ last_scanned' = state
    /\ from_block' = FromBlock(state, ToBlock(h))
    /\ events' = <<>>
    /\ idx' = 1
    /\ scanRange' = <<>>
    /\ scanError' = "none"
    /\ posted' = <<>>
    /\ outcomes' = <<>>
    /\ coldTo' = IF state = None THEN ToBlock(h) ELSE coldTo
    /\ pc' = RangeCheck(from_block', to_block')
    /\ outcome' = IF pc' = "sleep" THEN "skip" ELSE "none"
    /\ UNCHANGED <<state, file, ledger, submitted, prevScan, curScan, aggregator, connector>>

\* events = self.scanner.scan_for_events(from_block, to_block)
Scan(res) ==
    /\ pc = "scan"
    /\ LET r == scan_for_events(ledger, from_block, to_block, res)
       IN /\ events' = r.events
          /\ scanError' = r.error
          /\ scanRange' = IF r.queried THEN <<from_block, to_block>> ELSE <<>>
          /\ pc' = IF r.events = <<>> THEN "advance" ELSE "relay"
    /\ idx' = 1
    /\ UNCHANGED <<state, file, ledger, latest_block, to_block, last_scanned,
                   from_block, posted, outcomes, outcome, submitted, coldTo,
                   prevScan, curScan, aggregator, connector>>

\* relay_event without the amount validation of lines 272-274
relay_eventNoValidation(event, ok) ==
    IF ok THEN "ok" ELSE "failed"

\* relay_event: what happens to one record; ok is the destination's answer
relay_event(event, ok) ==
    IF event.amount <= 0 THEN "skipped"
    ELSE IF ok THEN "ok" ELSE "failed"

\* a for loop that gives up at the first failed delivery
AfterRelayStopOnFailure(r, i, n) ==
    IF r = "failed" \/ i = n THEN "advance" ELSE "relay"

\* "for event in events": after record i of n the loop takes the next
\* record, whatever relay_event did with this one, and ends after the last
AfterRelay(r, i, n) ==
    IF i = n THEN "advance" ELSE "relay"

\* one turn of "for event in events: self.relay_event(event)"
Relay(ok) ==
    /\ pc = "relay"
    /\ idx <= Len(events)
    /\ LET event == events[idx]
           r == relay_event(event, ok)
       IN /\ outcomes' = Append(outcomes, r)
          /\ posted' = IF r = "skipped" THEN posted
                       ELSE Append(posted, event.transactionId)
          /\ submitted' = IF r = "skipped" THEN submitted
                          ELSE submitted \cup {event.transactionId}
    /\ idx' = idx + 1
    /\ pc' = AfterRelay(relay_event(events[idx], ok), idx, Len(events))
    /\ UNCHANGED <<state, file, ledger, latest_block, to_block, last_scanned,
                   from_block, events, scanRange, scanError, outcome, coldTo,
                   prevScan, curScan, aggregator, connector>>

\* a checkpoint that advances only when no delivery of the iteration failed
NewCheckpointIfDelivered(old, to, outs) ==
    IF \E i \in 1..Len(outs) : outs[i] = "failed" THEN old ELSE to

\* the value assigned to self.state["last_scanned_block"] after the scan and
\* the relay loop: to_block, whatever the records and their outcomes were
NewCheckpoint(old, to, outs) == to

\* self.state["last_scanned_block"] = to_block
Advance ==
    /\ pc = "advance"
    /\ state' = NewCheckpoint(state, to_block, outcomes)
    /\ pc' = "save"
    /\ UNCHANGED <<file, ledger, latest_block, to_block, last_scanned,
                   from_block, events, idx, scanRange, scanError, posted,
                   outcomes, outcome, submitted, coldTo, prevScan, curScan, aggregator, connector>>

ThisScan ==
    [from |-> from_block, to |-> to_block]

\* StateDB.save_state: open(filepath, 'w') truncates the file, json.dump
\* writes it; an IOError is caught and logged, never re-raised.
\*   io = "ok"         the record is written
\*   io = "open_fails" open raises, the file is left as it was
\*   io = "dump_fails" the write raises after the truncation
save_state(f, s, io) ==
    IF io = "ok" THEN Valid(s)
    ELSE IF io = "open_fails" THEN f
    ELSE Corrupt

SaveState(io) ==
    /\ pc = "save"
    /\ file' = save_state(file, state, io)
    /\ outcome' = IF io = "ok" THEN "saved" ELSE "save_failed"
    /\ pc' = "sleep"
    /\ prevScan' = curScan
    /\ curScan' = ThisScan
    /\ UNCHANGED <<state, ledger, latest_block, to_block, last_scanned,
                   from_block, events, idx, scanRange, scanError, posted,
                   outcomes, submitted, coldTo, aggregator, connector>>

\* time.sleep(POLL_INTERVAL_SECONDS), then the next turn of while True
Sleep ==
    /\ pc = "sleep"
    /\ pc' = "idle"
    /\ UNCHANGED <<state, file, ledger, latest_block, to_block, last_scanned,
                   from_block, events, idx, scanRange, scanError, posted,
                   outcomes, outcome, submitted, coldTo, prevScan, curScan, aggregator, connector>>

\* The process is killed and started again: CrossChainRelayer.__init__
\* reloads self.state from the file.
Restart ==
    /\ state' = load_state(file)
    /\ pc' = "idle"
    /\ latest_block' = None
    /\ to_block' = None
    /\ last_scanned' = None
    /\ from_block' = None
    /\ events' = <<>>
    /\ idx' = 1
    /\ scanRange' = <<>>
    /\ scanError' = "none"
    /\ posted' = <<>>
    /\ outcomes' = <<>>
    /\ outcome' = "none"
    /\ prevScan' = NoScan
    /\ curScan' = NoScan
    /\ UNCHANGED <<file, ledger, submitted, coldTo, aggregator, connector>>

\* The process is killed inside save_state, after open(filepath, 'w') has
\* truncated the file and before json.dump has written the whole record, and
\* is started again.
AbortedSave ==
    /\ pc = "save"
    /\ file' = Corrupt
    /\ state' = load_state(file')
    /\ pc' = "idle"
    /\ latest_block' = None
    /\ to_block' = None
    /\ last_scanned' = None
    /\ from_block' = None
    /\ events' = <<>>
    /\ idx' = 1
    /\ scanRange' = <<>>
    /\ scanError' = "none"
    /\ posted' = <<>>
    /\ outcomes' = <<>>
    /\ outcome' = "none"
    /\ prevScan' = NoScan
    /\ curScan' = NoScan
    /\ UNCHANGED <<ledger, submitted, coldTo, aggregator, connector>>

Next ==
    \/ ConnectorFailure
    \/ \E h \in Heights : ComputeRange(h)
    \/ \E res \in {"ok", "BlockNotFound", "ConnectionLost"} : Scan(res)
    \/ \E ok \in BOOLEAN : Relay(ok)
    \/ Advance
    \/ \E io \in {"ok", "open_fails", "dump_fails"} : SaveState(io)
    \/ Sleep
    \/ Restart
    \/ AbortedSave

Spec == Init /\ [][Next]_vars

\* ---- A node that returns the logs of a range in any order ---------------

Orderings(S) ==
    {q \in [1..Cardinality(S) -> S] : \A x \in S : \E i \in 1..Cardinality(S) : q[i] = x}

InRange(L, from, to) == {l \in L : from <= l.blockNumber /\ l.blockNumber <= to}

\* events = self.scanner.scan_for_events(from_block, to_block), where
\* get_all_entries returns the logs of the range in some order
ScanAnyOrder ==
    /\ pc = "scan"
    /\ from_block <= to_block
    /\ \E raw \in Orderings(InRange(ledger, from_block, to_block)) :
          LET r == scan_entries(raw, "ok")
          IN /\ events' = r.events
             /\ scanError' = r.error
             /\ scanRange' = <<from_block, to_block>>
             /\ pc' = IF r.events = <<>> THEN "advance" ELSE "relay"
    /\ idx' = 1
    /\ UNCHANGED <<state, file, ledger, latest_block, to_block, last_scanned,
                   from_block, posted, outcomes, outcome, submitted, coldTo,
                   prevScan, curScan, aggregator, connector>>

OrderHeights == {100, 103}

OrderNext ==
    \/ \E h \in OrderHeights : ComputeRange(h)
    \/ ScanAnyOrder
    \/ \E ok \in BOOLEAN : Relay(ok)
    \/ Advance
    \/ \E io \in {"ok", "open_fails", "dump_fails"} : SaveState(io)
    \/ Sleep

SpecOrder == Init /\ [][OrderNext]_vars

\* ---- The loop of a process that is not killed ---------------------------

LiveHeights == {96, 100}

LiveNext ==
    \/ ConnectorFailure
    \/ \E h \in LiveHeights : ComputeRange(h)
    \/ \E res \in {"ok", "BlockNotFound", "ConnectionLost"} : Scan(res)
    \/ \E ok \in BOOLEAN : Relay(ok)
    \/ Advance
    \/ \E io \in {"ok", "open_fails", "dump_fails"} : SaveState(io)
    \/ Sleep

\* The single thread always takes its next step: every network call is
\* bounded by a timeout and time.sleep returns.
LiveSpec == Init /\ [][LiveNext]_vars /\ WF_vars(LiveNext)

\* ---- The utilities on their own: get_price calls and connector calls -----

InitAux ==
    /\ \E ps \in ProviderLists, t \in Tokens :
          aggregator = [providers |-> ps, token |-> t, i |-> 1, calls |-> <<>>,
                        result |-> Pending]
    /\ \E up \in BOOLEAN : connector = NewConnector(up)
    /\ pc = "idle"
    /\ file = Missing
    /\ state = load_state(Missing)
    /\ ledger = GoodLedger
    /\ latest_block = None
    /\ to_block = None
    /\ last_scanned = None
    /\ from_block = None
    /\ events = <<>>
    /\ idx = 1
    /\ scanRange = <<>>
    /\ scanError = "none"
    /\ posted = <<>>
    /\ outcomes = <<>>
    /\ outcome = "none"
    /\ submitted = {}
    /\ coldTo = None
    /\ prevScan = NoScan
    /\ curScan = NoScan

AuxNext ==
    \/ GetPriceStep
    \/ GetPriceNotFound
    \/ GetWeb3Instance

SpecAux == InitAux /\ [][AuxNext]_vars

\* ---- Properties --------------------------------------------------------

InIteration == latest_block # None

\* the block of a transaction id of the ledger
BlockOf(id) == (CHOOSE l \in ledger : l.id = id).blockNumber

\* the block numbers two scan ranges have in common
Overlap(a, b) == {n \in a.from..a.to : b.from <= n /\ n <= b.to}

TwoScans == prevScan.to # None /\ curScan.to # None

\* C2: in every iteration to_block is the height minus the confirmation
\* depth; from_block is to_block on a cold start and max(0, checkpoint -
\* depth) otherwise; the scanner is reached only with from_block <= to_block
\* and queries exactly that range; (unset, 100) scans [94,94] and (94, 103)
\* scans [88,97].
C2_RangeComputation ==
    InIteration =>
        /\ to_block = latest_block - 6
        /\ (last_scanned = None => from_block = to_block)
        /\ (last_scanned # None /\ last_scanned >= 6 => from_block = last_scanned - 6)
        /\ (last_scanned # None /\ last_scanned < 6 => from_block = 0)
        /\ (pc \in {"scan", "relay", "advance", "save"} => from_block <= to_block)
        /\ (scanRange # <<>> => from_block <= to_block /\ scanRange = <<from_block, to_block>>)
        /\ (last_scanned = None /\ latest_block = 100 /\ pc = "relay" => scanRange = <<94, 94>>)
        /\ (last_scanned = 94 /\ latest_block = 103 /\ pc = "relay" => scanRange = <<88, 97>>)

C2_Witness ==
    /\ last_scanned = 94
    /\ latest_block = 103
    /\ scanRange = <<88, 97>>
    /\ pc = "relay"

\* C3: an iteration that passed the range check and whose save succeeded
\* ends with the checkpoint, in memory and in the file, equal to its
\* to_block, whatever the scan returned and however the deliveries went.
C3_UnconditionalAdvance ==
    outcome = "saved" => state = to_block /\ file = Valid(to_block)

C3_Witness ==
    /\ outcome = "saved"
    /\ \E i \in 1..Len(outcomes) : outcomes[i] = "failed"
    /\ \E i \in 1..Len(outcomes) : outcomes[i] = "skipped"
    /\ state = 97
    /\ last_scanned = 94

\* C4: the step of an iteration that computes from_block > to_block ends the
\* iteration at once, with no log query, no submission, and the checkpoint in
\* memory and in the file as they were.
C4_SkipLeavesUnchanged ==
    [][(pc = "idle" /\ latest_block' # None /\ from_block' > to_block') =>
          /\ pc' = "sleep"
          /\ state' = state
          /\ file' = file
          /\ submitted' = submitted
          /\ scanRange' = <<>>
          /\ posted' = <<>>]_vars

C4_Witness ==
    /\ outcome = "skip"
    /\ pc = "sleep"
    /\ from_block > to_block
    /\ state = 97
    /\ file = Valid(97)

\* C7 as stated: two consecutive scanning iterations share at most
\* CONFIRMATION_DEPTH block numbers.
C7_Original ==
    TwoScans => Cardinality(Overlap(prevScan, curScan)) <= BLOCK_CONFIRMATIONS

\* C7 amended: two consecutive scanning iterations of one process share at
\* most CONFIRMATION_DEPTH + 1 block numbers (the blocks checkpoint - depth
\* .. checkpoint), and every submission of an iteration is for a block of
\* its own scan range, so a record is submitted in both only if its block
\* is one of those.
C7_RewindWindow ==
    /\ TwoScans =>
          /\ Cardinality(Overlap(prevScan, curScan)) <= BLOCK_CONFIRMATIONS + 1
          /\ \A n \in Overlap(prevScan, curScan) :
                 prevScan.to - BLOCK_CONFIRMATIONS <= n /\ n <= prevScan.to
    /\ \A i \in 1..Len(posted) :
          from_block <= BlockOf(posted[i]) /\ BlockOf(posted[i]) <= to_block

C7_Witness ==
    /\ TwoScans
    /\ Cardinality(Overlap(prevScan, curScan)) = BLOCK_CONFIRMATIONS + 1
    /\ Len(posted) > 0
    /\ pc = "sleep"

\* C1: every positive-amount event of a block between the cold-start
\* to_block and the checkpoint has been submitted to the destination at least
\* once.
C1_AtLeastOnce ==
    (coldTo # None /\ state # None) =>
        \A l \in ledger :
            (l.amount > 0 /\ coldTo <= l.blockNumber /\ l.blockNumber <= state)
                => l.id \in submitted

\* C5: an iteration that finds the confirmed head (height - depth) below the
\* stored checkpoint makes no log query and leaves the checkpoint unchanged.
C5_HeadBelowCheckpoint ==
    (InIteration /\ last_scanned # None
        /\ latest_block - BLOCK_CONFIRMATIONS < last_scanned) =>
        /\ scanRange = <<>>
        /\ state = last_scanned

\* C6: of two consecutive iterations that complete a scan, the later to_block
\* is not below the earlier one, and the later from_block is at most
\* CONFIRMATION_DEPTH below the earlier to_block.
C6_MonotoneBoundedRewind ==
    TwoScans =>
        /\ curScan.to >= prevScan.to
        /\ prevScan.to - curScan.from <= BLOCK_CONFIRMATIONS

\* C8: after an iteration whose checkpoint write failed, the checkpoint the
\* process holds is the one from before that iteration.
C8_FailedSaveKeepsCheckpoint ==
    outcome = "save_failed" => state = last_scanned

\* C9: when a log of the scanned range cannot be decoded, the iteration
\* aborts and the checkpoint is not advanced past that range.
C9_MalformedNotDropped ==
    scanError = "KeyError" => state = last_scanned

\* C10: an iteration during which the source node became unreachable leaves
\* the checkpoint, in memory and in the file, as it was and submits nothing.
C10_ConnectorFailureNoMutation ==
    (outcome = "conn_error" \/ scanError = "ConnectionLost") =>
        /\ posted = <<>>
        /\ (InIteration => state = last_scanned)

\* the transaction ids of the records of evs that relay_event submits
RECURSIVE Submittable(_)
Submittable(evs) ==
    IF evs = <<>> THEN <<>>
    ELSE (IF Head(evs).amount > 0 THEN <<Head(evs).transactionId>> ELSE <<>>)
         \o Submittable(Tail(evs))

\* the relay loop of this iteration is over
RelayDone == pc \in {"advance", "save"} \/ outcome \in {"saved", "save_failed"}

\* C11: once the relay loop is over, every record of the scan has been
\* handled and every record with a positive amount has been submitted, in
\* the order of the scan, also after a failed delivery; the checkpoint then
\* becomes to_block.
C11_FailedDeliveryContinues ==
    /\ RelayDone =>
          /\ Len(outcomes) = Len(events)
          /\ posted = Submittable(events)
    /\ (pc = "save" \/ outcome \in {"saved", "save_failed"}) => state = to_block
    /\ outcome = "saved" => file = Valid(to_block)

C11_Witness ==
    /\ outcome = "saved"
    /\ Len(outcomes) = 4
    /\ outcomes[1] = "failed"
    /\ outcomes[4] = "ok"
    /\ posted = <<"e2", "e4", "e5">>
    /\ state = 97

\* the amount of a transaction id of the ledger
AmountOf(id) == (CHOOSE l \in ledger : l.id = id).amount

\* C12: no record with amount <= 0 is ever submitted: relay_event skips it
\* without a call to the destination, the records after it are still
\* handled, and the checkpoint still becomes to_block.
C12_NonPositiveNeverSubmitted ==
    /\ \A id \in submitted : AmountOf(id) > 0
    /\ \A i \in 1..Len(posted) : AmountOf(posted[i]) > 0
    /\ \A i \in 1..Len(outcomes) :
          events[i].amount <= 0 => outcomes[i] = "skipped"
    /\ (RelayDone /\ \E i \in 1..Len(events) : events[i].amount <= 0) =>
          /\ Len(outcomes) = Len(events)
          /\ (pc # "advance" => state = to_block)

C12_Witness ==
    /\ outcome = "saved"
    /\ outcomes = <<"skipped", "ok">>
    /\ posted = <<"e4">>
    /\ state = 94
    /\ file = Valid(94)

\* the position of a transaction id in its block
LogIndexOf(id) == (CHOOSE l \in ledger : l.id = id).logIndex

\* id a comes before id b in ledger emission order
Before(a, b) ==
    \/ BlockOf(a) < BlockOf(b)
    \/ BlockOf(a) = BlockOf(b) /\ LogIndexOf(a) < LogIndexOf(b)

\* C13: whatever the order in which the query returns the logs, the records
\* of scan_for_events are ascending by (block_number, log_index), and the
\* submissions of the iteration are made in that ascending order.
C13_DeliveryOrder ==
    /\ \A i, j \in 1..Len(events) :
          i < j => Before(events[i].transactionId, events[j].transactionId)
    /\ \A i, j \in 1..Len(posted) : i < j => Before(posted[i], posted[j])

\* C14: when the process is killed at any point of save_state and started
\* again over a file that held a checkpoint, the file still holds a valid
\* record and load_state returns the checkpoint that was in the file before
\* the call or the one that was being saved.
C14_AtomicSave ==
    [][(pc = "save" /\ pc' = "idle" /\ file.kind = "valid") =>
          /\ file'.kind = "valid"
          /\ state' \in {file.last_scanned_block, state}]_vars

\* no iteration of this process has got as far as the checkpoint write: the
\* process is where its start left it
BeforeFirstSave == curScan = NoScan /\ pc # "save"

Failed ==
    \/ outcome \in {"conn_error", "save_failed"}
    \/ scanError # "none"
    \/ \E i \in 1..Len(outcomes) : outcomes[i] = "failed"

\* C16: after any failure inside an iteration (height query, log query,
\* decoding, a relay submission, the checkpoint write) the loop reaches its
\* sleep and then the start of a further iteration; the loop never ends.
C16_LoopNeverEnds ==
    /\ (Failed /\ pc \notin {"sleep", "idle"}) ~> (pc = "sleep")
    /\ (Failed /\ pc = "sleep") ~> (pc = "idle")
    /\ []<>(pc = "idle")

C16_Witness ==
    /\ pc = "idle"
    /\ outcome = "save_failed"
    /\ \E i \in 1..Len(outcomes) : outcomes[i] = "failed"

\* C19: an iteration that follows a completed one (its checkpoint saved as
\* its to_block) and reads the same chain height submits nothing and leaves
\* the checkpoint as it was.
C19_StalledChainNoResend ==
    (InIteration /\ curScan.to = to_block /\ last_scanned = to_block) =>
        /\ posted = <<>>
        /\ state = last_scanned

\* C20: the checkpoint is unset or >= 0, and every range given to the
\* scanner has from_block >= 0 and to_block >= 0.
C20_NonNegativeBlocks ==
    /\ (state = None \/ state >= 0)
    /\ (pc = "scan" => from_block >= 0 /\ to_block >= 0)
    /\ (scanRange # <<>> => scanRange[1] >= 0 /\ scanRange[2] >= 0)

\* C17: get_price calls the providers in the order supplied and stops at the
\* first that returns a positive number without raising, whose price it
\* returns; providers that raise or return None, a non-number or a
\* non-positive value are passed over, and when none qualifies the call
\* raises PriceNotFoundError for the token symbol after calling them all.
C17_GetPrice ==
    LET ps == aggregator.providers
        calls == aggregator.calls
        res == aggregator.result
        good(k) == ps[k].kind = "number" /\ ps[k].value > 0
    IN /\ \A j \in 1..Len(calls) : calls[j] = j
       /\ \A j \in 1..(Len(calls) - 1) : ~good(j)
       /\ res.kind = "pending" => \A j \in 1..Len(calls) : ~good(j)
       /\ res.kind = "float" =>
             /\ Len(calls) >= 1
             /\ good(Len(calls))
             /\ res.value = ps[Len(calls)].value
       /\ res.kind = "PriceNotFoundError" =>
             /\ Len(calls) = Len(ps)
             /\ \A k \in 1..Len(ps) : ~good(k)
             /\ res.token_symbol = aggregator.token

C17_Witness ==
    /\ Len(aggregator.providers) = 3
    /\ aggregator.providers[1] = Raises
    /\ aggregator.providers[2] = Returns(5)
    /\ aggregator.providers[3] = Returns(7)
    /\ aggregator.calls = <<1, 2>>
    /\ aggregator.result = ToFloat(5)

\* C18: a get_web3_instance call that finds the connection failed makes
\* exactly one connect() attempt and raises ConnectionError when the attempt
\* fails; a call that finds the connection alive makes none; no call makes
\* more than one.
C18_SingleReconnect ==
    connector.called =>
        LET failed == ~(connector.before /\ connector.up1)
        IN /\ connector.connects <= 1
           /\ failed => connector.connects = 1
           /\ ~failed => connector.connects = 0 /\ ~connector.raised /\ connector.web3
           /\ (failed /\ ~connector.up2) => connector.raised /\ ~connector.web3
           /\ (failed /\ connector.up2) => ~connector.raised /\ connector.web3

C18_Witness ==
    /\ connector.called
    /\ connector.before
    /\ ~connector.up1
    /\ ~connector.up2
    /\ connector.connects = 1
    /\ connector.raised


====
